---- MODULE Spec2Model ----
(***************************************************************************)
(* Tenant scoping of a NestJS + Prisma application.                        *)
(*                                                                         *)
(*   - ClsModule middleware (app module): on every inbound request, stores *)
(*     Number(req.headers['x-tenant-id']) under 'tenantId' in the          *)
(*     request's own context store.                                        *)
(*   - TenantGuard.canActivate: rejects a request whose header is falsy.   *)
(*   - PrismaService.instance: reads 'tenantId' from the context of the    *)
(*     running request and derives a client whose operations are rewritten *)
(*     by prismaTenantFactory.                                             *)
(*   - The underlying store (posts / tenants tables) executes the          *)
(*     rewritten query.                                                    *)
(*                                                                         *)
(* JavaScript objects are functions from key names to values; the spread   *)
(* "{...obj, k: v}" is Spread(obj, k, v).  Numbers are integers, with NaN  *)
(* a distinguished value outside the naturals.                             *)
(***************************************************************************)
EXTENDS Integers, Sequences, FiniteSets, TLC

(* ------------------------------ bounds -------------------------------- *)

\* concurrently in-flight requests
NumRequests == 2

\* longest x-tenant-id header string
MaxHeaderLen == 1

\* last value the posts id sequence hands out
MaxId == 2

\* longest createMany payload
MaxBatch == 2

(* --------------------------- JavaScript values ------------------------ *)

\* the result of Number() on a string that is not a numeric literal
NaN == -1

Requests == 1 .. NumRequests

\* ids of the rows of the tenants table
Tenants == {1, 2}

Ids == 1 .. MaxId

Titles == {"a", "b"}

EmptyObj == [k \in {} |-> 0]

\* {...obj, key: value}
Spread(obj, key, value) ==
    [k \in (DOMAIN obj) \cup {key} |-> IF k = key THEN value ELSE obj[k]]

Has(obj, key) == key \in DOMAIN obj

(* ------------------------------ headers ------------------------------- *)

HeaderChars == {"0", "1", "2", "a"}

RECURSIVE StringsUpTo(_)
StringsUpTo(n) ==
    IF n = 0 THEN {<< >>}
    ELSE LET shorter == StringsUpTo(n - 1)
         IN  shorter \cup {Append(s, c) : s \in shorter, c \in HeaderChars}

\* req.headers['x-tenant-id']: undefined when the header is absent
NoHeader == [present |-> FALSE, chars |-> << >>]

HeaderValues ==
    {NoHeader} \cup {[present |-> TRUE, chars |-> s] : s \in StringsUpTo(MaxHeaderLen)}

DigitValue(c) ==
    CASE c = "0" -> 0
      [] c = "1" -> 1
      [] c = "2" -> 2
      [] OTHER   -> NaN

IsDigit(c) == c \in {"0", "1", "2"}

RECURSIVE DecimalValue(_)
DecimalValue(s) ==
    IF s = << >> THEN 0
    ELSE 10 * DecimalValue(SubSeq(s, 1, Len(s) - 1)) + DigitValue(s[Len(s)])

\* Number(x): NaN for undefined, 0 for the empty string, the decimal value of
\* a digit string, NaN for any other string
Number(h) ==
    IF ~h.present THEN NaN
    ELSE IF \A i \in 1 .. Len(h.chars) : IsDigit(h.chars[i])
         THEN DecimalValue(h.chars)
         ELSE NaN

\* a guard that lets every request through
FalsyNever(h) == FALSE

\* !tenantId : undefined and the empty string are falsy, any other string is truthy

Falsy(h) == ~h.present \/ h.chars = << >>

(* ------------------------- request-scoped context --------------------- *)

\* what cls.get returns for a key that was never set
Undefined == -2

\* null, the other value prismaTenantFactory's tenant_id may have besides a number
NullValue == -3

VARIABLES
    phase,      \* per request: "idle", "guard", "handler", "awaiting", "rejected"
    headers,    \* per request: its x-tenant-id header
    cls,        \* per request: the context store of that request
    response,   \* per request: the error response sent, if any
    posts,      \* rows of the posts table
    nextId,     \* next value of the posts id sequence
    last        \* the call in flight: the last one made through the wrapped client

vars == << phase, headers, cls, response, posts, nextId, last >>

\* the value stored under a misspelt key
ClsSetOtherKey(store, r, key, value) ==
    [store EXCEPT ![r] = Spread(store[r], "tenant_id", value)]

\* cls.set(key, value) on the store of request r
ClsSet(store, r, key, value) ==
    [store EXCEPT ![r] = Spread(store[r], key, value)]

\* one store shared by all requests: the value of whichever request holds one
ClsGetShared(store, r, key) ==
    LET set == {q \in Requests : Has(store[q], key)}
    IN  IF set = {} THEN Undefined
        ELSE store[CHOOSE q \in set : \A o \in set : q <= o][key]

\* cls.get(key) while request r is executing: the store of r, and only of r
ClsGet(store, r, key) ==
    IF Has(store[r], key) THEN store[r][key] ELSE Undefined

(* ------------------------ prismaTenantFactory ------------------------- *)
(* args: [where, data, many, create, update]; "many" is the payload of     *)
(* createMany: [isArray, items].                                           *)

NoMany == [isArray |-> FALSE, items |-> << >>]

Args(where, data, many, create, update) ==
    [where |-> where, data |-> data, many |-> many,
     create |-> create, update |-> update]

findMany(args, tenant_id) ==
    [args EXCEPT !.where = Spread(args.where, "tenant_id", tenant_id)]

findFirst(args, tenant_id) ==
    [args EXCEPT !.where = Spread(args.where, "tenant_id", tenant_id)]

\* the lookup passed on as the caller gave it
findUniqueUnscoped(args, tenant_id) == args

findUnique(args, tenant_id) ==
    [args EXCEPT !.where = Spread(args.where, "tenant_id", tenant_id)]

\* { tenant_id, ...args.where }: the caller's tenant_id wins
findUniqueOrThrowCallerWins(args, tenant_id) ==
    [args EXCEPT !.where =
        IF Has(args.where, "tenant_id") THEN args.where
        ELSE Spread(args.where, "tenant_id", tenant_id)]

findUniqueOrThrow(args, tenant_id) ==
    [args EXCEPT !.where = Spread(args.where, "tenant_id", tenant_id)]

findFirstOrThrow(args, tenant_id) ==
    [args EXCEPT !.where = Spread(args.where, "tenant_id", tenant_id)]

updateMany(args, tenant_id) ==
    [args EXCEPT !.where = Spread(args.where, "tenant_id", tenant_id)]

\* the filter passed on as the caller gave it
deleteManyUnscoped(args, tenant_id) == args

deleteMany(args, tenant_id) ==
    [args EXCEPT !.where = Spread(args.where, "tenant_id", tenant_id)]

\* { tenant_id, ...args.data }: the caller's tenant_id wins
createCallerWins(args, tenant_id) ==
    [args EXCEPT !.data =
        IF Has(args.data, "tenant_id") THEN args.data
        ELSE Spread(args.data, "tenant_id", tenant_id)]

create(args, tenant_id) ==
    [args EXCEPT !.data = Spread(args.data, "tenant_id", tenant_id)]

\* only the creation payload is scoped, the lookup is not
upsertCreateOnly(args, tenant_id) ==
    [args EXCEPT !.create = Spread(args.create, "tenant_id", tenant_id)]

upsert(args, tenant_id) ==
    [args EXCEPT !.where = Spread(args.where, "tenant_id", tenant_id),
                 !.create = Spread(args.create, "tenant_id", tenant_id)]

\* only the first element of the payload is scoped
createManyFirstOnly(args, tenant_id) ==
    IF Len(args.many.items) = 0 THEN args
    ELSE [args EXCEPT !.many.items[1] =
            Spread(args.many.items[1], "tenant_id", tenant_id)]

createMany(args, tenant_id) ==
    IF args.many.isArray
    THEN [args EXCEPT !.many.items =
            [i \in 1 .. Len(args.many.items) |->
                Spread(args.many.items[i], "tenant_id", tenant_id)]]
    ELSE [args EXCEPT !.many.items =
            << Spread(args.many.items[1], "tenant_id", tenant_id) >>]

(* --------------------------- underlying store ------------------------- *)
(* posts(id SERIAL PK, title NOT NULL, tenant_id INTEGER NOT NULL          *)
(* REFERENCES tenants(id)); what query(args) does with the rewritten args. *)

NumericKeys == {"id", "tenant_id"}

\* a key whose value is undefined counts as not given
Strip(obj) ==
    [k \in {x \in DOMAIN obj : ~(x \in NumericKeys /\ obj[x] = Undefined)} |-> obj[k]]

\* NaN and null are no values of an integer NOT NULL column
Invalid(obj) == \E k \in (DOMAIN obj) \cap NumericKeys : obj[k] \in {NaN, NullValue}

Matches(p, where) == \A k \in DOMAIN where : p[k] = where[k]

Res(kind, rows, count) == [kind |-> kind, rows |-> rows, count |-> count]

NoResult == Res("none", {}, 0)

ValidationError == Res("ValidationError", {}, 0)

ForeignKeyError == Res("ForeignKeyError", {}, 0)

NotFoundError == Res("NotFoundError", {}, 0)

Null == Res("null", {}, 0)

Out(rows, seq, result) == [posts |-> rows, nextId |-> seq, result |-> result]

Selected(rows, where) == {p \in rows : Matches(p, Strip(where))}

QueryFindMany(rows, seq, args) ==
    IF Invalid(args.where)
    THEN {Out(rows, seq, ValidationError), Out(rows, seq, Res("rows", {}, 0))}
    ELSE {Out(rows, seq, Res("rows", Selected(rows, args.where), 0))}

QueryFindFirst(rows, seq, args) ==
    IF Invalid(args.where)
    THEN {Out(rows, seq, ValidationError), Out(rows, seq, Null)}
    ELSE IF Selected(rows, args.where) = {}
         THEN {Out(rows, seq, Null)}
         ELSE {Out(rows, seq, Res("row", {p}, 0)) : p \in Selected(rows, args.where)}

QueryFindFirstOrThrow(rows, seq, args) ==
    IF Invalid(args.where)
    THEN {Out(rows, seq, ValidationError), Out(rows, seq, NotFoundError)}
    ELSE IF Selected(rows, args.where) = {}
         THEN {Out(rows, seq, NotFoundError)}
         ELSE {Out(rows, seq, Res("row", {p}, 0)) : p \in Selected(rows, args.where)}

\* a unique lookup needs the primary key in its filter
QueryFindUnique(rows, seq, args) ==
    IF ~Has(Strip(args.where), "id")
    THEN {Out(rows, seq, ValidationError)}
    ELSE QueryFindFirst(rows, seq, args)

QueryFindUniqueOrThrow(rows, seq, args) ==
    IF ~Has(Strip(args.where), "id")
    THEN {Out(rows, seq, ValidationError)}
    ELSE QueryFindFirstOrThrow(rows, seq, args)

\* the row p with the fields of data written over it
Apply(p, data) ==
    [id        |-> p.id,
     title     |-> IF Has(data, "title") THEN data.title ELSE p.title,
     tenant_id |-> IF Has(data, "tenant_id") THEN data.tenant_id ELSE p.tenant_id]

NewRow(id, data) == [id |-> id, title |-> data.title, tenant_id |-> data.tenant_id]

\* a payload the client accepts for an insert
Insertable(data) ==
    /\ ~Invalid(data)
    /\ Has(Strip(data), "title")
    /\ Has(Strip(data), "tenant_id")

QueryUpdateMany(rows, seq, args) ==
    LET targets == Selected(rows, args.where)
        data    == Strip(args.data)
    IN  IF Invalid(args.where)
        THEN {Out(rows, seq, ValidationError), Out(rows, seq, Res("count", {}, 0))}
        ELSE IF Invalid(data)
        THEN {Out(rows, seq, ValidationError)}
        ELSE IF targets # {} /\ Has(data, "tenant_id") /\ data.tenant_id \notin Tenants
        THEN {Out(rows, seq, ForeignKeyError)}
        ELSE {Out((rows \ targets) \cup {Apply(p, data) : p \in targets}, seq,
                  Res("count", {}, Cardinality(targets)))}

QueryDeleteMany(rows, seq, args) ==
    LET targets == Selected(rows, args.where)
    IN  IF Invalid(args.where)
        THEN {Out(rows, seq, ValidationError), Out(rows, seq, Res("count", {}, 0))}
        ELSE {Out(rows \ targets, seq, Res("count", {}, Cardinality(targets)))}

InsertUnchecked(rows, seq, payload) ==
    LET data == Strip(payload)
    IN  IF ~Insertable(payload)
        THEN {Out(rows, seq, ValidationError)}
        ELSE {Out(rows \cup {NewRow(seq, data)}, seq + 1,
                  Res("row", {NewRow(seq, data)}, 0))}

\* INSERT of one row: the sequence value is drawn before the foreign key is checked
Insert(rows, seq, payload) ==
    LET data == Strip(payload)
    IN  IF ~Insertable(payload)
        THEN {Out(rows, seq, ValidationError)}
        ELSE IF data.tenant_id \notin Tenants
        THEN {Out(rows, seq + 1, ForeignKeyError)}
        ELSE {Out(rows \cup {NewRow(seq, data)}, seq + 1,
                  Res("row", {NewRow(seq, data)}, 0))}

QueryCreate(rows, seq, args) == Insert(rows, seq, args.data)

QueryUpsert(rows, seq, args) ==
    LET found == Selected(rows, args.where)
        data  == Strip(args.update)
    IN  IF ~Has(Strip(args.where), "id") \/ Invalid(args.where)
        THEN {Out(rows, seq, ValidationError)}
        ELSE IF found = {}
        THEN Insert(rows, seq, args.create)
        ELSE IF Invalid(data)
        THEN {Out(rows, seq, ValidationError)}
        ELSE IF Has(data, "tenant_id") /\ data.tenant_id \notin Tenants
        THEN {Out(rows, seq, ForeignKeyError)}
        ELSE {Out((rows \ found) \cup {Apply(p, data) : p \in found}, seq,
                  Res("row", {Apply(p, data) : p \in found}, 0))}

\* one INSERT of all rows: all are stored or none is
QueryCreateMany(rows, seq, args) ==
    LET items == args.many.items
        n     == Len(items)
    IN  IF \E i \in 1 .. n : ~Insertable(items[i])
        THEN {Out(rows, seq, ValidationError)}
        ELSE IF \E i \in 1 .. n : items[i].tenant_id \notin Tenants
        THEN {Out(rows, seq + n, ForeignKeyError)}
        ELSE {Out(rows \cup {NewRow(seq + i - 1, Strip(items[i])) : i \in 1 .. n},
                  seq + n, Res("count", {}, n))}

(* ------------------------------ inputs -------------------------------- *)

Obj1(k, v) == Spread(EmptyObj, k, v)

Obj2(k1, v1, k2, v2) == Spread(Obj1(k1, v1), k2, v2)

\* filters a caller may pass
WhereInputs ==
    {EmptyObj}
    \cup {Obj1("id", i) : i \in Ids}
    \cup {Obj1("tenant_id", t) : t \in Tenants}
    \cup {Obj2("id", i, "tenant_id", t) : i \in Ids, t \in Tenants}

UniqueWhereInputs == {w \in WhereInputs : Has(w, "id")}

\* payloads a caller may pass to create
CreateInputs ==
    {Obj1("title", x) : x \in Titles}
    \cup {Obj2("title", x, "tenant_id", t) : x \in Titles, t \in Tenants}

\* payloads a caller may pass to update; no tenants row has the id 0
UpdateInputs ==
    {EmptyObj}
    \cup {Obj1("title", x) : x \in Titles}
    \cup {Obj1("tenant_id", t) : t \in Tenants \cup {0}}

RECURSIVE SeqsUpTo(_, _)
SeqsUpTo(S, n) ==
    IF n = 0 THEN {<< >>}
    ELSE LET shorter == SeqsUpTo(S, n - 1)
         IN  shorter \cup {Append(q, x) : q \in shorter, x \in S}

\* payloads a caller may pass to createMany: one object, or an array
ManyInputs ==
    {[isArray |-> FALSE, items |-> << d >>] : d \in CreateInputs}
    \cup {[isArray |-> TRUE, items |-> q] : q \in SeqsUpTo(CreateInputs, MaxBatch)}

ReadArgs(where) == Args(where, EmptyObj, NoMany, EmptyObj, EmptyObj)

(* ------------------------------ state --------------------------------- *)

NoResponse == [status |-> 0, message |-> ""]

Forbidden == [status |-> 403, message |-> "Tenant ID is required"]

NoCall ==
    [req |-> 0, op |-> "none", tenant_id |-> Undefined,
     args |-> ReadArgs(EmptyObj), eff |-> ReadArgs(EmptyObj), result |-> NoResult]

\* one post per tenant
SeedPosts == {[id |-> t, title |-> "a", tenant_id |-> t] : t \in Tenants}

InitRequests ==
    /\ phase = [r \in Requests |-> "idle"]
    /\ headers = [r \in Requests |-> NoHeader]
    /\ cls = [r \in Requests |-> EmptyObj]
    /\ response = [r \in Requests |-> NoResponse]
    /\ last = NoCall

Init ==
    /\ InitRequests
    /\ posts = SeedPosts
    /\ nextId = Cardinality(SeedPosts) + 1

InitOps ==
    /\ InitRequests
    /\ posts = {}
    /\ nextId = 1

(* ----------------------------- request path --------------------------- *)

\* ClsModule middleware setup: cls.set('tenantId', Number(req.headers['x-tenant-id']))
ClsMiddleware(r, h) ==
    /\ phase[r] = "idle"
    /\ headers' = [headers EXCEPT ![r] = h]
    /\ cls' = ClsSet(cls, r, "tenantId", Number(h))
    /\ phase' = [phase EXCEPT ![r] = "guard"]
    /\ UNCHANGED << response, posts, nextId, last >>

\* TenantGuard.canActivate
canActivate(r) ==
    /\ phase[r] = "guard"
    /\ IF Falsy(headers[r])
       THEN /\ phase' = [phase EXCEPT ![r] = "rejected"]
            /\ response' = [response EXCEPT ![r] = Forbidden]
       ELSE /\ phase' = [phase EXCEPT ![r] = "handler"]
            /\ UNCHANGED response
    /\ UNCHANGED << headers, cls, posts, nextId, last >>

\* PrismaService.instance, read while request r executes: the tenant the
\* derived client is built with
instance(r) == ClsGet(cls, r, "tenantId")

\* query(args) on the underlying client; the handler awaits the result
Issue(r, op, args, eff, out) ==
    /\ phase' = [phase EXCEPT ![r] = "awaiting"]
    /\ posts' = out.posts
    /\ nextId' = out.nextId
    /\ last' = [req |-> r, op |-> op, tenant_id |-> instance(r),
                args |-> args, eff |-> eff, result |-> out.result]
    /\ UNCHANGED << headers, cls, response >>

\* the awaited result is delivered and the handler of r resumes
Resume(r) ==
    /\ phase[r] = "awaiting"
    /\ phase' = [phase EXCEPT ![r] = "handler"]
    /\ last' = IF last.req = r THEN NoCall ELSE last
    /\ UNCHANGED << headers, cls, response, posts, nextId >>

PostFindMany(r, where) ==
    /\ phase[r] = "handler"
    /\ LET args == ReadArgs(where)
           eff  == findMany(args, instance(r))
       IN  \E out \in QueryFindMany(posts, nextId, eff) :
               Issue(r, "findMany", args, eff, out)

PostFindFirst(r, where) ==
    /\ phase[r] = "handler"
    /\ LET args == ReadArgs(where)
           eff  == findFirst(args, instance(r))
       IN  \E out \in QueryFindFirst(posts, nextId, eff) :
               Issue(r, "findFirst", args, eff, out)

PostFindUnique(r, where) ==
    /\ phase[r] = "handler"
    /\ LET args == ReadArgs(where)
           eff  == findUnique(args, instance(r))
       IN  \E out \in QueryFindUnique(posts, nextId, eff) :
               Issue(r, "findUnique", args, eff, out)

PostFindUniqueOrThrow(r, where) ==
    /\ phase[r] = "handler"
    /\ LET args == ReadArgs(where)
           eff  == findUniqueOrThrow(args, instance(r))
       IN  \E out \in QueryFindUniqueOrThrow(posts, nextId, eff) :
               Issue(r, "findUniqueOrThrow", args, eff, out)

PostFindFirstOrThrow(r, where) ==
    /\ phase[r] = "handler"
    /\ LET args == ReadArgs(where)
           eff  == findFirstOrThrow(args, instance(r))
       IN  \E out \in QueryFindFirstOrThrow(posts, nextId, eff) :
               Issue(r, "findFirstOrThrow", args, eff, out)

PostUpdateMany(r, where, data) ==
    /\ phase[r] = "handler"
    /\ LET args == Args(where, data, NoMany, EmptyObj, EmptyObj)
           eff  == updateMany(args, instance(r))
       IN  \E out \in QueryUpdateMany(posts, nextId, eff) :
               Issue(r, "updateMany", args, eff, out)

PostDeleteMany(r, where) ==
    /\ phase[r] = "handler"
    /\ LET args == ReadArgs(where)
           eff  == deleteMany(args, instance(r))
       IN  \E out \in QueryDeleteMany(posts, nextId, eff) :
               Issue(r, "deleteMany", args, eff, out)

PostCreate(r, data) ==
    /\ phase[r] = "handler"
    /\ nextId <= MaxId
    /\ LET args == Args(EmptyObj, data, NoMany, EmptyObj, EmptyObj)
           eff  == create(args, instance(r))
       IN  \E out \in QueryCreate(posts, nextId, eff) :
               Issue(r, "create", args, eff, out)

PostUpsert(r, where, data, update) ==
    /\ phase[r] = "handler"
    /\ nextId <= MaxId
    /\ LET args == Args(where, EmptyObj, NoMany, data, update)
           eff  == upsert(args, instance(r))
       IN  \E out \in QueryUpsert(posts, nextId, eff) :
               Issue(r, "upsert", args, eff, out)

PostCreateMany(r, many) ==
    /\ phase[r] = "handler"
    /\ nextId + Len(many.items) - 1 <= MaxId
    /\ LET args == Args(EmptyObj, EmptyObj, many, EmptyObj, EmptyObj)
           eff  == createMany(args, instance(r))
       IN  \E out \in QueryCreateMany(posts, nextId, eff) :
               Issue(r, "createMany", args, eff, out)

\* PostService.findAll: this.prisma.instance.post.findMany()
findAll(r) == PostFindMany(r, EmptyObj)

\* the response is sent and the request's context ends
Close(r) ==
    /\ phase[r] \in {"handler", "rejected"}
    /\ phase' = [phase EXCEPT ![r] = "idle"]
    /\ headers' = [headers EXCEPT ![r] = NoHeader]
    /\ cls' = [cls EXCEPT ![r] = EmptyObj]
    /\ response' = [response EXCEPT ![r] = NoResponse]
    /\ last' = IF last.req = r THEN NoCall ELSE last
    /\ UNCHANGED << posts, nextId >>

(* --------------------------- specifications --------------------------- *)

\* the application: concurrent requests, each handled by PostService.findAll
Next ==
    \E r \in Requests :
        \/ \E h \in HeaderValues : ClsMiddleware(r, h)
        \/ canActivate(r)
        \/ findAll(r)
        \/ Resume(r)
        \/ Close(r)

Spec == Init /\ [][Next]_vars

\* one request at a time, its handler free to call any operation of the
\* wrapped client
OpsRequests == {1}

NextOps ==
    \E r \in OpsRequests :
        \/ \E h \in HeaderValues : ClsMiddleware(r, h)
        \/ canActivate(r)
        \/ Resume(r)
        \/ Close(r)
        \/ \E w \in WhereInputs : PostFindMany(r, w)
        \/ \E w \in WhereInputs : PostFindFirst(r, w)
        \/ \E w \in WhereInputs : PostFindUnique(r, w)
        \/ \E w \in WhereInputs : PostFindUniqueOrThrow(r, w)
        \/ \E w \in WhereInputs : PostFindFirstOrThrow(r, w)
        \/ \E w \in WhereInputs, d \in UpdateInputs : PostUpdateMany(r, w, d)
        \/ \E w \in WhereInputs : PostDeleteMany(r, w)
        \/ \E d \in CreateInputs : PostCreate(r, d)
        \/ \E w \in UniqueWhereInputs, d \in CreateInputs, u \in UpdateInputs :
               PostUpsert(r, w, d, u)
        \/ \E m \in ManyInputs : PostCreateMany(r, m)

SpecOps == InitOps /\ [][NextOps]_vars

\* contexts that hold no tenant identifier: 'tenantId' never set, or set to null
AbsentContexts == {EmptyObj, Obj1("tenantId", NullValue)}

\* code that calls the wrapped client in a context the middleware setup did
\* not fill: PrismaService.instance reads whatever that context holds
RunWithoutTenant(r, store) ==
    /\ phase[r] = "idle"
    /\ phase' = [phase EXCEPT ![r] = "handler"]
    /\ cls' = [cls EXCEPT ![r] = store]
    /\ UNCHANGED << headers, response, posts, nextId, last >>

\* as SpecOps, and the wrapped client is also called with no tenant in context
NextNoTenant ==
    \/ NextOps
    \/ \E r \in OpsRequests, store \in AbsentContexts : RunWithoutTenant(r, store)

SpecNoTenant == InitOps /\ [][NextNoTenant]_vars

(* ------------------------------ properties ---------------------------- *)

\* the tenant of request r: the numeric value of its header
TenantOf(r) == Number(headers[r])

ReadOps ==
    {"findMany", "findFirst", "findUnique", "findFirstOrThrow", "findUniqueOrThrow"}

\* obj with key set to value and every other key as in the caller's object
Merged(eff, given, key, value) ==
    /\ DOMAIN eff = (DOMAIN given) \cup {key}
    /\ eff[key] = value
    /\ \A k \in (DOMAIN given) \ {key} : eff[k] = given[k]

\* the step in which request r calls op through the wrapped client
Calls(op) ==
    /\ last'.op = op
    /\ last'.req \in Requests
    /\ phase[last'.req] = "handler"
    /\ phase'[last'.req] = "awaiting"

\* C1: a request without the x-tenant-id header is answered 403 "Tenant ID is
\* required" by the guard, never reaches its handler, and no call through
\* PrismaService.instance is ever in flight for it.
C1_NoHeaderRejected ==
    \A r \in Requests :
        ~headers[r].present =>
            /\ phase[r] \in {"idle", "guard", "rejected"}
            /\ phase[r] = "rejected" => response[r] = Forbidden
            /\ phase[r] # "rejected" => response[r] = NoResponse
            /\ last.req # r

C1_Witness ==
    \E r \in Requests :
        /\ ~headers[r].present
        /\ phase[r] = "rejected"
        /\ response[r].status = 403
        /\ response[r].message = "Tenant ID is required"

\* C2: for each of the five read operations, the filter passed to the
\* underlying query holds tenant_id = the tenant of the calling request, also
\* when the caller's filter names another tenant_id, and every other key of
\* the caller's filter is passed through unchanged.
C2_ReadsScoped ==
    last.op \in ReadOps =>
        /\ headers[last.req].present
        /\ Merged(last.eff.where, last.args.where, "tenant_id", TenantOf(last.req))

C2_Witness ==
    /\ last.op = "findUniqueOrThrow"
    /\ TenantOf(last.req) = 2
    /\ Has(last.args.where, "id")
    /\ Has(last.args.where, "tenant_id")
    /\ last.args.where.tenant_id = 1
    /\ last.eff.where.tenant_id = 2
    /\ last.eff.where.id = last.args.where.id

\* the ids of a set of rows
IdsOf(rows) == {p.id : p \in rows}

\* C3: a create under tenant T stores at most one new row; the row stored has
\* tenant_id = T whatever tenant_id the caller's payload held, and the
\* caller's title; no existing row is touched.
C3_CreateScoped ==
    [][Calls("create") =>
        /\ posts \subseteq posts'
        /\ Cardinality(posts' \ posts) <= 1
        /\ \A p \in posts' \ posts :
              /\ p.tenant_id = TenantOf(last'.req)
              /\ p.title = last'.args.data.title
              /\ p.id \notin IdsOf(posts)
        /\ last'.result.kind = "row" => last'.result.rows = posts' \ posts
        /\ last'.result.kind # "row" => posts' = posts
        /\ TenantOf(last'.req) \in Tenants => last'.result.kind = "row"]_vars

C3_Witness ==
    /\ last.op = "create"
    /\ Has(last.args.data, "tenant_id")
    /\ last.args.data.tenant_id = 1
    /\ TenantOf(last.req) = 2
    /\ last.result.kind = "row"
    /\ \E p \in posts :
          /\ last.result.rows = {p}
          /\ p.tenant_id = 2
          /\ p.title = last.args.data.title

\* C4: an upsert under tenant T looks up with tenant_id = T, so the row it
\* matches and updates is a row of T; when no row of T matches, the row it
\* creates has tenant_id = T; every row of another tenant is left as it was.
C4_UpsertScoped ==
    [][Calls("upsert") =>
        LET T == TenantOf(last'.req)
        IN  /\ Merged(last'.eff.where, last'.args.where, "tenant_id", T)
            /\ Merged(last'.eff.create, last'.args.create, "tenant_id", T)
            /\ \A p \in posts : p.tenant_id # T => p \in posts'
            /\ \A p \in posts \ posts' :
                  /\ p.tenant_id = T
                  /\ p.id = last'.args.where.id
            /\ \A p \in posts' :
                  p.id \notin IdsOf(posts) =>
                      /\ p.tenant_id = T
                      /\ p.title = last'.args.create.title
                      /\ ~\E q \in posts : q.tenant_id = T /\ q.id = last'.args.where.id]_vars

C4_Witness ==
    /\ last.op = "upsert"
    /\ TenantOf(last.req) = 2
    /\ DOMAIN last.args.where = {"id"}
    /\ Has(last.args.create, "tenant_id")
    /\ last.args.create.tenant_id = 1
    /\ last.result.kind = "row"
    /\ \E p \in posts : p.id = last.args.where.id /\ p.tenant_id = 1
    /\ \E p \in posts : last.result.rows = {p} /\ p.tenant_id = 2
                          /\ p.id # last.args.where.id

\* C5: the payload createMany passes on has tenant_id = T in every element
\* of an array payload (same length, same order, other fields unchanged) and
\* in a single-object payload; a caller-supplied tenant_id is overridden.
C5_CreateManyScoped ==
    last.op = "createMany" =>
        /\ last.eff.many.isArray = last.args.many.isArray
        /\ Len(last.eff.many.items) = Len(last.args.many.items)
        /\ \A i \in 1 .. Len(last.args.many.items) :
              Merged(last.eff.many.items[i], last.args.many.items[i],
                     "tenant_id", TenantOf(last.req))
        /\ last.result.kind = "count" =>
              /\ last.result.count = Len(last.args.many.items)
              /\ \A i \in 1 .. Len(last.args.many.items) :
                    \E p \in posts :
                        /\ p.id = nextId - Len(last.args.many.items) + i - 1
                        /\ p.tenant_id = TenantOf(last.req)
                        /\ p.title = last.args.many.items[i].title

C5_Witness ==
    /\ last.op = "createMany"
    /\ last.args.many.isArray
    /\ Len(last.args.many.items) = 2
    /\ TenantOf(last.req) = 1
    /\ Has(last.args.many.items[2], "tenant_id")
    /\ last.args.many.items[2].tenant_id = 2
    /\ last.args.many.items[1].title # last.args.many.items[2].title
    /\ last.result.kind = "count"
    /\ \A p \in posts : p.tenant_id = 1

\* the single-object payload of createMany, scoped and stored
C5_WitnessSingle ==
    /\ last.op = "createMany"
    /\ ~last.args.many.isArray
    /\ TenantOf(last.req) = 1
    /\ Has(last.args.many.items[1], "tenant_id")
    /\ last.args.many.items[1].tenant_id = 2
    /\ last.eff.many.items[1].tenant_id = 1
    /\ last.result.kind = "count"

\* C6: an updateMany or deleteMany under tenant T changes and removes only
\* rows whose tenant_id = T: every row of another tenant is still there,
\* unchanged, whatever filter the caller gave.
C6_BulkWritesScoped ==
    [][Calls("updateMany") \/ Calls("deleteMany") =>
        LET T == TenantOf(last'.req)
        IN  /\ Merged(last'.eff.where, last'.args.where, "tenant_id", T)
            /\ \A p \in posts : p.tenant_id # T => p \in posts'
            /\ \A p \in posts \ posts' : p.tenant_id = T
            /\ IdsOf(posts') \subseteq IdsOf(posts)]_vars

C6_Witness ==
    /\ last.op = "deleteMany"
    /\ TenantOf(last.req) = 1
    /\ DOMAIN last.args.where = {"tenant_id"}
    /\ last.args.where.tenant_id = 2
    /\ last.result.kind = "count"
    /\ \E p \in posts : p.tenant_id = 2

\* an updateMany that changed a row of its own tenant beside another tenant's row
C6_WitnessUpdate ==
    /\ last.op = "updateMany"
    /\ TenantOf(last.req) = 1
    /\ last.args.where = EmptyObj
    /\ last.result.kind = "count"
    /\ last.result.count = 1
    /\ \E p \in posts : p.tenant_id = 2 /\ p.title = "a"
    /\ \E p \in posts : p.tenant_id = 1 /\ p.title = "b"

\* C7: a findUnique / findUniqueOrThrow under tenant T by the primary key
\* alone of a row of another tenant does not return that row: findUnique
\* yields no record, findUniqueOrThrow the not-found error.
C7_UniqueLookupScoped ==
    (/\ last.op \in {"findUnique", "findUniqueOrThrow"}
     /\ DOMAIN last.args.where = {"id"}) =>
        \A p \in posts :
            (p.id = last.args.where.id /\ p.tenant_id # TenantOf(last.req)) =>
                /\ p \notin last.result.rows
                /\ last.result.kind # "row"
                /\ TenantOf(last.req) # NaN =>
                      last.result = (IF last.op = "findUnique" THEN Null
                                     ELSE NotFoundError)

C7_Witness ==
    /\ last.op = "findUniqueOrThrow"
    /\ DOMAIN last.args.where = {"id"}
    /\ TenantOf(last.req) = 2
    /\ \E p \in posts : p.id = last.args.where.id /\ p.tenant_id = 1
    /\ last.result = NotFoundError

\* C8: with requests of different tenants in flight at once, every call made
\* through the wrapped client during a request is scoped with that request's
\* own tenant: the client is built with the value the request's own context
\* holds, the filter passed on names it, and the rows returned are that
\* tenant's, also while the request is suspended and others run.
C8_RequestsIsolated ==
    /\ last.op # "none" =>
          /\ phase[last.req] = "awaiting"
          /\ last.tenant_id = TenantOf(last.req)
          /\ last.eff.where.tenant_id = TenantOf(last.req)
          /\ \A p \in last.result.rows : p.tenant_id = TenantOf(last.req)
    /\ \A r \in Requests :
          phase[r] \in {"handler", "awaiting"} => instance(r) = TenantOf(r)

C8_Witness ==
    \E r, q \in Requests :
        /\ r # q
        /\ phase[r] = "awaiting"
        /\ phase[q] = "awaiting"
        /\ TenantOf(r) = 1
        /\ TenantOf(q) = 2
        /\ last.req = r
        /\ last.result.kind = "rows"
        /\ last.result.rows # {}
        /\ \A p \in last.result.rows : p.tenant_id = 1

\* C9: the tenant_id of a Post row never changes: in every step, a row that
\* exists before and after it has the same tenant_id.
C9_TenantImmutable ==
    [][\A p \in posts : \A q \in posts' : p.id = q.id => p.tenant_id = q.tenant_id]_vars

\* C10 as stated: 'tenantId' is in a request's context only once the guard
\* has let the request through, and never for a request the guard rejected.
C10_WrittenAfterGuard ==
    \A r \in Requests :
        /\ Has(cls[r], "tenantId") =>
              /\ phase[r] \in {"handler", "awaiting"}
              /\ cls[r]["tenantId"] = Number(headers[r])
        /\ phase[r] = "rejected" => ~Has(cls[r], "tenantId")

\* C10 as amended: the middleware writes Number(header) under 'tenantId'
\* when the request arrives, before the guard runs and whether or not the
\* header is present (NaN when it is absent); the guard writes nothing, so a
\* rejected request keeps the value, which no call ever reads.
C10_WrittenByMiddleware ==
    \A r \in Requests :
        /\ phase[r] = "idle" => cls[r] = EmptyObj
        /\ phase[r] # "idle" =>
              /\ DOMAIN cls[r] = {"tenantId"}
              /\ cls[r]["tenantId"] = Number(headers[r])
              /\ ~headers[r].present => cls[r]["tenantId"] = NaN
              /\ headers[r] = [present |-> TRUE, chars |-> << >>] => cls[r]["tenantId"] = 0
              /\ headers[r] = [present |-> TRUE, chars |-> << "2" >>] => cls[r]["tenantId"] = 2
              /\ headers[r] = [present |-> TRUE, chars |-> << "a" >>] => cls[r]["tenantId"] = NaN
        /\ phase[r] = "rejected" => last.req # r

C10_Witness ==
    \E r, q \in Requests :
        /\ phase[r] = "rejected"
        /\ ~headers[r].present
        /\ cls[r]["tenantId"] = NaN
        /\ phase[q] = "guard"
        /\ headers[q] = [present |-> TRUE, chars |-> << "2" >>]
        /\ cls[q]["tenantId"] = 2

FilterOps == ReadOps \cup {"updateMany", "deleteMany", "upsert"}

\* obj carries tenant_id = null, as the store reads it
CarriesNull(obj) ==
    /\ Has(Strip(obj), "tenant_id")
    /\ obj["tenant_id"] = NullValue

\* the arguments of the call are such as a call under a tenant would accept
CallerArgsValid ==
    /\ last.op \in {"findUnique", "findUniqueOrThrow"} => Has(last.args.where, "id")
    /\ \A data \in {last.args.data, last.args.update} :
          Has(data, "tenant_id") => data["tenant_id"] \in Tenants

\* C11: when the context holds no tenant identifier as PrismaService.instance
\* is read ('tenantId' never set, or null), every intercepted operation runs
\* without raising an error and with a null tenant: the filter of reads,
\* updateMany, deleteMany and upsert has tenant_id = null, the payload of
\* create, createMany and upsert's create has tenant_id = null, and no
\* operation reaches the store without a tenant_id constraint.
C11_NullTenantScoped ==
    (last.op # "none" /\ last.tenant_id \in {Undefined, NullValue}) =>
        /\ CallerArgsValid => last.result.kind \notin {"ValidationError", "ForeignKeyError"}
        /\ last.op \in FilterOps => CarriesNull(last.eff.where)
        /\ last.op = "create" => CarriesNull(last.eff.data)
        /\ last.op = "upsert" => CarriesNull(last.eff.create)
        /\ last.op = "createMany" =>
              \A i \in 1 .. Len(last.eff.many.items) : CarriesNull(last.eff.many.items[i])
        /\ \A p \in last.result.rows : p.tenant_id = NullValue

\* a read made with 'tenantId' never set returns the rows of two tenants
C11_Leak ==
    /\ last.op = "findMany"
    /\ last.tenant_id = Undefined
    /\ last.args.where = EmptyObj
    /\ \E p, q \in last.result.rows : p.tenant_id = 1 /\ q.tenant_id = 2

\* obj gives no tenant_id that is the id of a tenants row
NoValidTenant(obj) ==
    \/ ~Has(Strip(obj), "tenant_id")
    \/ obj["tenant_id"] \notin Tenants

Rejected(call) == call.result.kind \in {"ValidationError", "ForeignKeyError"}

\* the call made in this step would store a Post row without a valid tenant
WouldOrphan(call) ==
    \/ /\ call.op = "create"
       /\ NoValidTenant(call.eff.data)
    \/ /\ call.op = "createMany"
       /\ \E i \in 1 .. Len(call.eff.many.items) : NoValidTenant(call.eff.many.items[i])
    \/ /\ call.op = "upsert"
       /\ Has(Strip(call.eff.where), "id")
       /\ ~Invalid(call.eff.where)
       /\ Selected(posts, call.eff.where) = {}
       /\ NoValidTenant(call.eff.create)
    \/ /\ call.op = "upsert"
       /\ Has(Strip(call.eff.where), "id")
       /\ ~Invalid(call.eff.where)
       /\ Selected(posts, call.eff.where) # {}
       /\ Has(Strip(call.eff.update), "tenant_id")
       /\ call.eff.update["tenant_id"] \notin Tenants
    \/ /\ call.op = "updateMany"
       /\ ~Invalid(call.eff.where)
       /\ Selected(posts, call.eff.where) # {}
       /\ Has(Strip(call.eff.data), "tenant_id")
       /\ call.eff.data["tenant_id"] \notin Tenants

PostsHaveTenant(rows) == \A p \in rows : p.tenant_id \in Tenants

\* C12: after any sequence of create, createMany, upsert, updateMany and
\* deleteMany, made under a tenant, under an invalid one or under none, every
\* Post row has a tenant_id that is not null and is the id of a row of
\* tenants (ids are the primary key, so of exactly one); a write that would
\* store a Post without such a tenant is rejected and leaves the rows as
\* they were, and a rejected call never changes them.
C12_PostsHaveTenant ==
    /\ PostsHaveTenant(posts)
    /\ [][/\ PostsHaveTenant(posts')
          /\ \A r \in Requests :
                (phase[r] = "handler" /\ phase'[r] = "awaiting") =>
                    /\ WouldOrphan(last') => Rejected(last')
                    /\ Rejected(last') => posts' = posts]_vars

\* an updateMany that would move rows to a tenant that does not exist is rejected
C12_WitnessUpdate ==
    /\ posts # {}
    /\ PostsHaveTenant(posts)
    /\ last.op = "updateMany"
    /\ last.tenant_id = Undefined
    /\ last.result.kind = "ForeignKeyError"

\* a create under no tenant, a null, a NaN or an unknown one is rejected
\* while rows are stored
C12_Witness ==
    /\ last.op = "create"
    /\ last.tenant_id \in {Undefined, NullValue, NaN, 0}
    /\ Rejected(last)
    /\ posts # {}

\* the handler of r runs: the guard has admitted the request
Admitted(r) == phase[r] \in {"handler", "awaiting"}

\* C13: for every request the guard admits, the value under 'tenantId' in
\* the request's context is a valid number, never NaN and never absent, and
\* is the numeric value of the header, for every header string the guard
\* lets through, non-numeric strings and "0" included.
C13_AdmittedTenantValid ==
    \A r \in Requests :
        Admitted(r) =>
            /\ Has(cls[r], "tenantId")
            /\ cls[r]["tenantId"] = Number(headers[r])
            /\ cls[r]["tenantId"] \notin {NaN, Undefined, NullValue}

\* a request whose header is the string "a" is admitted with NaN in its context
C13_AdmittedNaN ==
    \E r \in Requests :
        /\ Admitted(r)
        /\ headers[r] = [present |-> TRUE, chars |-> << "a" >>]
        /\ cls[r]["tenantId"] = NaN

\* a request whose header is the string "0" is admitted with 0 in its context
C13_AdmittedZero ==
    \E r \in Requests :
        /\ Admitted(r)
        /\ headers[r] = [present |-> TRUE, chars |-> << "0" >>]
        /\ cls[r]["tenantId"] = 0

====
